---- MODULE Spec2Model ----
(***************************************************************************)
(* Model of release.py (barnuri/win-dock): one invocation of the script,   *)
(* from main() through the pipeline of ReleaseManager.run to the exit of   *)
(* the process, including the except clause of main().  The files, the     *)
(* primary repository, the release host and the tap checkout may carry     *)
(* what an earlier invocation left behind.                                 *)
(***************************************************************************)
EXTENDS Integers, Sequences, FiniteSets, TLC

(* ------------------------------ bounds --------------------------------- *)
\* largest version component drawn for the version arithmetic
MaxComponent == 3

(* ------------------------------ values --------------------------------- *)
\* a version string is the sequence of its dot-separated components; a
\* component int() rejects is NonNumeric; the empty sequence is "no string"
NonNumeric == -1
None == <<>>
BumpKinds == {"major", "minor", "patch"}

VARIABLES
    pc,               \* position of the process in main()/run()
    dry_run,          \* release_manager.dry_run
    version_type,     \* args.version_type
    HAVE_GITPYTHON,   \* module constant: GitPython importable
    has_gh_cli,       \* gh --version runs on this machine
    current_version,  \* self.current_version
    new_version,      \* self.new_version
    tag_name,         \* self.tag_name
    release_notes,    \* self.release_notes: the sections of the notes
    commits_text,     \* the commits listed under "What's Changed"
    plist,            \* Info.plist in the working tree
    plistIndex,       \* Info.plist as staged in the index
    formula,          \* homebrew-tap/Formula/windock.rb in the working tree
    commits,          \* history of the primary repository, oldest first
    tags,             \* tags of the primary repository
    zip,              \* WinDock.zip at the project root
    notesFile,        \* release_notes.md at the project root
    releases,         \* tags of the release records on the release releaseHost
    assets,           \* the WinDock.zip attached to each release record
    tap,              \* the tap checkout (homebrew-windock-temp)
    cwd,              \* current working directory of the process
    original_dir,     \* local variable of submit_to_homebrew
    hbOps,            \* operations submit_to_homebrew attempted, in order
    env,              \* outcomes of the external calls of the latest step
    log,              \* messages printed by the latest step
    steps,            \* pipeline steps executed so far
    err,              \* the exception that left run(), "none" if none
    atStart           \* files and repository as they were at process start

vars == <<pc, dry_run, version_type, HAVE_GITPYTHON, has_gh_cli,
          current_version,
          new_version, tag_name, release_notes, commits_text, plist, plistIndex,
          formula,
          commits, tags, zip, notesFile, releases, assets, tap, cwd,
          original_dir,
          hbOps, env, log, steps, err, atStart>>

\* groups used in UNCHANGED
args == <<dry_run, version_type, HAVE_GITPYTHON, has_gh_cli>>
versions == <<current_version, new_version, tag_name>>
notes == <<release_notes, commits_text>>
releaseHost == <<releases, assets>>
primaryRepo == <<plistIndex, commits, tags>>
rootFiles == <<zip, notesFile>>
homebrew == <<tap, cwd, original_dir, hbOps>>

(* ------------------------- pure helper functions ----------------------- *)
\* f"{major}.{minor}.{patch}"
FormatVersion(major, minor, patch) == <<major, minor, patch>>

\* f"v{self.new_version}"
TagOf(version) == [prefix |-> "v", version |-> version]

\* int(parts[i]) raises ValueError for some component that is read
ParseFails(parts) ==
    \/ Len(parts) = 0
    \/ \E i \in 1..Len(parts) : i <= 3 /\ parts[i] = NonNumeric

\* int(parts[i]) if len(parts) > i else 0
Component(parts, i) == IF Len(parts) >= i THEN parts[i] ELSE 0

\* a bump that forgets to reset the patch component on a minor bump
BumpNoReset(parts, kind) ==
    LET major == Component(parts, 1)
        minor == Component(parts, 2)
        patch == Component(parts, 3)
    IN  CASE kind = "major" -> FormatVersion(major + 1, 0, 0)
          [] kind = "minor" -> FormatVersion(major, minor + 1, patch)
          [] kind = "patch" -> FormatVersion(major, minor, patch + 1)
          [] OTHER -> FormatVersion(major, minor, patch)

\* the version bump of calculate_new_version
Bump(parts, kind) ==
    LET major == Component(parts, 1)
        minor == Component(parts, 2)
        patch == Component(parts, 3)
    IN  CASE kind = "major" -> FormatVersion(major + 1, 0, 0)
          [] kind = "minor" -> FormatVersion(major, minor + 1, 0)
          [] kind = "patch" -> FormatVersion(major, minor, patch + 1)
          [] OTHER -> FormatVersion(major, minor, patch)

\* semantic-version order on major.minor.patch
VersionLess(a, b) ==
    \/ a[1] < b[1]
    \/ a[1] = b[1] /\ a[2] < b[2]
    \/ a[1] = b[1] /\ a[2] = b[2] /\ a[3] < b[3]

\* plist_data["CFBundleShortVersionString"] if present, else "1.0.0"
ReadVersion(p) == IF p.short # None THEN p.short ELSE <<1, 0, 0>>

\* a write that sets CFBundleVersion only
WritePlistBuildOnly(p, version) == [p EXCEPT !.build = version]

\* plist_data[...] = self.new_version for both keys, then plistlib.dump
WritePlist(p, version) == [p EXCEPT !.short = version, !.build = version]

\* the sha256 field of a formula: the :no_check sentinel, or the digest of
\* the archive released as some version
NoCheck == [check |-> FALSE, of |-> None]
Digest(version) == [check |-> TRUE, of |-> version]

\* no formula document
NoFormula == [exists |-> FALSE, version |-> None, url |-> None, sha |-> NoCheck]

(* ------------------------------- Init ---------------------------------- *)
\* the released version and the one a patch bump makes of it
Released == <<1, 2, 3>>
Committed == [short |-> Released, build |-> Released]
Bumped == WritePlist(Committed, Bump(Released, "patch"))

\* the formula document naming a version, without checksum
FormulaFor(version) ==
    [exists |-> TRUE, version |-> version, url |-> version, sha |-> NoCheck]

\* the tap checkout next to the project (homebrew-windock-temp): missing,
\* "notrepo" (a directory without .git), "clone" (a clone of the remote tap)
\* or "local" (made by git init, without remote); formula is its
\* working-tree copy of windock.rb
TapIn(dir) == [dir |-> dir, formula |-> NoFormula]

\* a lightweight tag on the first commit
OldTag(version) == [name |-> TagOf(version), at |-> 1, kind |-> "lightweight"]

\* a clean checkout of the released version: with or without the formula
\* document, any state of the tap checkout, with or without the archive
\* of the last release
CleanCheckouts ==
    { [plist |-> Committed, index |-> Committed, head |-> Committed,
       formula |-> f, tags |-> {}, zip |-> z, notesFile |-> "absent",
       releases |-> <<>>, tap |-> TapIn(d)] :
      f \in {NoFormula, FormulaFor(Released)},
      z \in {"absent", "stale"},
      d \in {"missing", "notrepo", "clone"} }

\* a clean checkout whose Info.plist has no version key, or a version with
\* a component that is not a number ("1.x.0", "1.2.3.beta")
OddCheckouts ==
    { [plist |-> p, index |-> p, head |-> p, formula |-> FormulaFor(Released),
       tags |-> {}, zip |-> "absent", notesFile |-> "absent",
       releases |-> <<>>, tap |-> TapIn("missing")] :
      p \in { [short |-> v, build |-> v] :
              v \in {None, <<1, NonNumeric, 0>>, <<1, 2, 3, NonNumeric>>} } }

\* what an earlier invocation that bumped Released by "patch" can leave:
\*  - the bump staged but not committed (git commit failed after git add)
\*  - the bump written but not staged (git add failed)
\*  - the bump reverted by the except clause after the release was made
\*    (git add failed, the formula sync raised in its finally clause)
Leftovers ==
    LET next == Bump(Released, "patch")
        common == [head |-> Committed, formula |-> FormulaFor(next),
                   tags |-> {OldTag(next)}, zip |-> "stale",
                   releases |-> <<TagOf(next)>>]
    IN  { common @@ [plist |-> Bumped, index |-> Bumped,
                     notesFile |-> "absent", tap |-> TapIn("clone")],
          common @@ [plist |-> Bumped, index |-> Committed,
                     notesFile |-> "absent", tap |-> TapIn("clone")],
          common @@ [plist |-> Committed, index |-> Committed,
                     notesFile |-> "stale", tap |-> TapIn("notrepo")] }

\* a formula document edited by hand: its version field and the version in
\* its URL carry a pre-release suffix ("1.2.3-beta"), which [\d\.]+ does
\* not match
SuffixedFormula ==
    [exists |-> TRUE, version |-> <<1, 2, 3, NonNumeric>>,
     url |-> <<1, 2, 3, NonNumeric>>, sha |-> NoCheck]

\* a formula document that carries the digest of the released archive in
\* place of the :no_check sentinel
DigestFormula == [FormulaFor(Released) EXCEPT !.sha = Digest(Released)]

\* a clean checkout of the released version with such a formula document
OddFormulaCheckouts ==
    { [plist |-> Committed, index |-> Committed, head |-> Committed,
       formula |-> f, tags |-> {}, zip |-> "absent",
       notesFile |-> "absent", releases |-> <<>>, tap |-> TapIn("missing")] :
      f \in {SuffixedFormula, DigestFormula} }

\* a clean checkout with a longer history: the release before Released in
\* commit 1, Released in commit 2, both tagged and released, and commit 3
\* made since
Earlier == <<1, 2, 2>>
TaggedHistories ==
    { [plist |-> Committed, index |-> Committed, head |-> Committed,
       history |-> <<[plist |-> [short |-> Earlier, build |-> Earlier],
                      bump |-> TRUE],
                     [plist |-> Committed, bump |-> TRUE],
                     [plist |-> Committed, bump |-> FALSE]>>,
       formula |-> FormulaFor(Released),
       tags |-> {[name |-> TagOf(Earlier), at |-> 1, kind |-> "lightweight"],
                 [name |-> TagOf(Released), at |-> 2, kind |-> "lightweight"]},
       zip |-> "stale", notesFile |-> "absent",
       releases |-> <<TagOf(Earlier), TagOf(Released)>>,
       tap |-> TapIn("clone")] }

InitStates ==
    CleanCheckouts \cup OddCheckouts \cup OddFormulaCheckouts \cup Leftovers
        \cup TaggedHistories

\* the releases of earlier runs carry the archives those runs built
EarlierAssets(records) ==
    { [tag |-> records[i], zip |-> "stale"] : i \in 1..Len(records) }

\* what a dry run must leave alone
Snapshot(p, f, c, t, i, z, n) ==
    [plist |-> p, formula |-> f, commits |-> c, tags |-> t, plistIndex |-> i,
     zip |-> z, notesFile |-> n]

\* the state at process start for a checkout, release host and tap s
InitWith(s) ==
    /\ pc = "main"
    /\ dry_run = FALSE
    /\ version_type = "patch"
    /\ HAVE_GITPYTHON \in BOOLEAN
    /\ has_gh_cli \in BOOLEAN
    /\ current_version = None
    /\ new_version = None
    /\ tag_name = TagOf(None)
    /\ release_notes = {}
    /\ commits_text = {}
    /\ plist = s.plist
    /\ plistIndex = s.index
    /\ commits = IF "history" \in DOMAIN s THEN s.history
                 ELSE <<[plist |-> s.head, bump |-> FALSE]>>
    /\ formula = s.formula
    /\ tags = s.tags
    /\ zip = s.zip
    /\ notesFile = s.notesFile
    /\ releases = s.releases
    /\ assets = EarlierAssets(s.releases)
    /\ tap = s.tap
    /\ cwd = "start"
    /\ original_dir = "unbound"
    /\ hbOps = <<>>
    /\ env = {}
    /\ log = {}
    /\ steps = {}
    /\ err = "none"
    /\ atStart = Snapshot(plist, formula, commits, tags, plistIndex, zip,
                          notesFile)

Init == \E s \in InitStates : InitWith(s)

(* --------------------------- main() and run() -------------------------- *)
Exited == {"exited_ok", "exited_handled", "exited_traceback"}

\* main(): parse the arguments, construct the ReleaseManager, enter run()
main ==
    /\ pc = "main"
    /\ dry_run' \in BOOLEAN
    /\ version_type' \in BumpKinds
    /\ pc' = "cleanup_stale_resources"
    /\ UNCHANGED <<HAVE_GITPYTHON, has_gh_cli, versions, notes, plist,
                   formula, primaryRepo, rootFiles, releaseHost, homebrew,
                   env, log, steps, err, atStart>>

\* a failure that starts the failed step again
RaiseAndRetry(kind) ==
    /\ err' = kind
    /\ pc' = pc

\* an exception leaves run(): control goes to the except clause of main()
Raise(kind) ==
    /\ err' = kind
    /\ pc' = "handler"

\* unlink of WinDock.zip when it exists; a failure is printed and swallowed
cleanup_stale_resources ==
    /\ pc = "cleanup_stale_resources"
    /\ steps' = steps \cup {"cleanup_stale_resources"}
    /\ IF zip = "absent"
       THEN zip' = zip /\ env' = {} /\ log' = {}
       ELSE \E unlink \in {"ok", "unlink_fails"} :
              /\ env' = {unlink}
              /\ IF unlink = "ok"
                 THEN zip' = "absent" /\ log' = {"removed_stale"}
                 ELSE zip' = zip /\ log' = {"warn_remove_stale"}
    /\ pc' = "get_current_version"
    /\ UNCHANGED <<args, versions, notes, plist, formula, primaryRepo,
                   notesFile, releaseHost, homebrew, err, atStart>>

\* plistlib.load of Info.plist; any exception becomes a RuntimeError
get_current_version ==
    /\ pc = "get_current_version"
    /\ steps' = steps \cup {"get_current_version"}
    /\ log' = {}
    /\ \E read \in {"ok", "read_fails"} :
         /\ env' = {read}
         /\ IF read = "ok"
            THEN /\ current_version' = ReadVersion(plist)
                 /\ pc' = "calculate_new_version"
                 /\ UNCHANGED err
            ELSE /\ Raise("read_error")
                 /\ UNCHANGED current_version
    /\ UNCHANGED <<args, new_version, tag_name, notes, plist, formula,
                   primaryRepo, rootFiles, releaseHost, homebrew, atStart>>

\* split, int(), bump, format; a ValueError becomes a RuntimeError
calculate_new_version ==
    /\ pc = "calculate_new_version"
    /\ steps' = steps \cup {"calculate_new_version"}
    /\ env' = {}
    /\ log' = {}
    /\ IF ParseFails(current_version)
       THEN /\ Raise("version_error")
            /\ UNCHANGED <<new_version, tag_name>>
       ELSE /\ new_version' = Bump(current_version, version_type)
            /\ tag_name' = TagOf(new_version')
            /\ pc' = "update_version_in_plist"
            /\ UNCHANGED err
    /\ UNCHANGED <<args, current_version, notes, plist, formula,
                   primaryRepo, rootFiles, releaseHost, homebrew, atStart>>

\* re.sub(r'version "[\d\.]+"', ...): the pattern matches a field made of
\* digits and dots only
MatchesDigitsDots(field) ==
    /\ Len(field) > 0
    /\ \A i \in 1..Len(field) : field[i] # NonNumeric

\* substitutions whose patterns stop at the opening quote and at "/v": the
\* new version is put in front of the old one
SubstituteUnanchored(f, version) ==
    [f EXCEPT !.version = version \o @, !.url = version \o @]

\* the two substitutions of update_homebrew_formula_version
SubstituteFormula(f, version) ==
    [f EXCEPT !.version = IF MatchesDigitsDots(@) THEN version ELSE @,
              !.url = IF MatchesDigitsDots(@) THEN version ELSE @]

\* update_homebrew_formula_version: never raises; rewrite is "ok" or the
\* read or write of the formula file raised
update_homebrew_formula_version(rewrite) ==
    IF ~formula.exists
    THEN /\ log' = {"warn_formula_missing"}
         /\ UNCHANGED formula
    ELSE IF rewrite = "ok"
    THEN /\ formula' = SubstituteFormula(formula, new_version)
         /\ log' = {"updated_formula"}
    ELSE /\ log' = {"warn_formula_update"}
         /\ UNCHANGED formula

\* update_version_in_plist: skipped in a dry run
update_version_in_plist ==
    /\ pc = "update_version_in_plist"
    /\ steps' = steps \cup {"update_version_in_plist"}
    /\ IF dry_run
       THEN /\ pc' = "build_app"
            /\ env' = {}
            /\ log' = {"dry_run"}
            /\ UNCHANGED <<plist, formula, err>>
       ELSE \E write \in {"ok", "write_fails"},
               rewrite \in {"ok", "rewrite_fails"} :
              IF write = "ok"
              THEN /\ plist' = WritePlist(plist, new_version)
                   /\ update_homebrew_formula_version(rewrite)
                   /\ env' = {write, "formula_" \o rewrite}
                   /\ pc' = "build_app"
                   /\ UNCHANGED err
              ELSE /\ Raise("plist_error")
                   /\ env' = {write}
                   /\ log' = {}
                   /\ UNCHANGED <<plist, formula>>
    /\ UNCHANGED <<args, versions, notes, primaryRepo, rootFiles,
                   releaseHost, homebrew, atStart>>

\* outcomes of build.sh: exit 0 with the bundle present, non-zero exit,
\* exit 0 without WinDock.app
BuildOutcomes == {"ok", "nonzero", "no_app"}

\* a build step that trusts the exit status alone
BuildSucceedsTrustingExit(outcome) == outcome \in {"ok", "no_app"}

\* subprocess.run(check=True) returned and self.app_path.exists()
BuildSucceeds(outcome) == outcome = "ok"

\* a build step followed by an archive step between build and commit, where
\* run() has the call of create_dmg commented out
build_app_then_archive ==
    /\ pc = "build_app"
    /\ steps' = steps \cup {"build_app"}
    /\ log' = {}
    /\ \E outcome \in BuildOutcomes :
         /\ env' = {"build_" \o outcome}
         /\ IF BuildSucceeds(outcome)
            THEN /\ pc' = "commit_version_bump"
                 /\ zip' = "current"
                 /\ UNCHANGED err
            ELSE Raise("build_error") /\ UNCHANGED zip
    /\ UNCHANGED <<args, versions, notes, plist, formula, primaryRepo,
                   notesFile, releaseHost, homebrew, atStart>>

\* build_app: runs in a dry run as well
build_app ==
    /\ pc = "build_app"
    /\ steps' = steps \cup {"build_app"}
    /\ log' = {}
    /\ \E outcome \in BuildOutcomes :
         /\ env' = {"build_" \o outcome}
         /\ IF BuildSucceeds(outcome)
            THEN pc' = "commit_version_bump" /\ UNCHANGED err
            ELSE Raise("build_error")
    /\ UNCHANGED <<args, versions, notes, plist, formula, primaryRepo,
                   rootFiles, releaseHost, homebrew, atStart>>

\* git restore <path> without --source or --staged: the working-tree file
\* is replaced by the staged content
GitRestore(index, history) == index

\* exit status of the process: an exception that leaves main() ends the
\* interpreter with a traceback and status 1, a return from main() with 0
ExitStatus(position) == IF position = "exited_traceback" THEN 1 ELSE 0

\* an except clause that re-raises after the restore
handler_reraising ==
    /\ pc = "handler"
    /\ steps' = steps \cup {"handler"}
    /\ \E restore \in {"ok", "restore_fails"} :
         /\ env' = {restore}
         /\ log' = {"error_printed"}
         /\ pc' = "exited_traceback"
         /\ IF restore = "ok"
            THEN plist' = plistIndex
            ELSE UNCHANGED plist
    /\ UNCHANGED <<args, versions, notes, formula, primaryRepo,
                   rootFiles, releaseHost, homebrew, err, atStart>>

\* except clause of main(): print, then git restore Info.plist, check=True
handler ==
    /\ pc = "handler"
    /\ steps' = steps \cup {"handler"}
    /\ \E restore \in {"ok", "restore_fails"} :
         /\ env' = {restore}
         /\ log' = {"error_printed"}
         /\ IF restore = "ok"
            THEN /\ plist' = GitRestore(plistIndex, commits)
                 /\ pc' = "exited_handled"
            ELSE /\ pc' = "exited_traceback"
                 /\ UNCHANGED plist
    /\ UNCHANGED <<args, versions, notes, formula, primaryRepo,
                   rootFiles, releaseHost, homebrew, err, atStart>>

(* --------------------- source control: commit and tag ------------------ *)
\* the state the git steps work on; env collects the calls that failed
GitState == [index |-> plistIndex, commits |-> commits, tags |-> tags,
             log |-> {}, env |-> {}]

HeadOf(history) == history[Len(history)]

\* git add of the files to commit
Stage(g) == [g EXCEPT !.index = plist]

\* a commit of the staged content
Commit(g) == [g EXCEPT !.commits = Append(@, [plist |-> g.index, bump |-> TRUE])]

\* a failed call: which one, and the message printed for it
Failed(g, call, message) ==
    [g EXCEPT !.env = @ \cup {call}, !.log = @ \cup {message}]

\* where the raw git commands of the commit step can stop
SubprocessOutcomes == {"ok", "add_fails", "commit_fails", "push_fails"}

\* where the GitPython calls of the commit step can stop
LibraryOutcomes == {"ok", "add_raises", "commit_raises", "push_raises",
                    "push_error_flag"}

\* a raw-command commit with --allow-empty: it succeeds with nothing staged
GitCommitAllowingEmpty(g, outcome) ==
    IF outcome = "add_fails"
    THEN Failed(g, "add_fails", "warn_git_commit")
    ELSE IF outcome = "commit_fails"
    THEN Failed(Stage(g), "commit_fails", "warn_git_commit")
    ELSE IF outcome = "push_fails"
    THEN Failed(Commit(Stage(g)), "push_fails", "warn_push")
    ELSE [Commit(Stage(g)) EXCEPT !.log = @ \cup {"ok_commit_pushed"}]

\* _git_commit_via_subprocess: git add, git commit (both check=True), then
\* git push; git commit exits non-zero when nothing is staged
GitCommitViaSubprocess(g, outcome) ==
    IF outcome = "add_fails"
    THEN Failed(g, "add_fails", "warn_git_commit")
    ELSE IF outcome = "commit_fails" \/ Stage(g).index = HeadOf(g.commits).plist
    THEN Failed(Stage(g), "commit_fails", "warn_git_commit")
    ELSE IF outcome = "push_fails"
    THEN Failed(Commit(Stage(g)), "push_fails", "warn_push")
    ELSE [Commit(Stage(g)) EXCEPT !.log = @ \cup {"ok_commit_pushed"}]

\* the GitPython branch of commit_version_bump; any exception falls back to
\* _git_commit_via_subprocess, which starts again from git add
GitCommitViaLibrary(g, lib, sub) ==
    LET fallback(h) ==
            GitCommitViaSubprocess(Failed(h, lib, "warn_gitpython_commit"), sub)
    IN  CASE lib = "add_raises" -> fallback(g)
          [] lib = "commit_raises" -> fallback(Stage(g))
          [] lib = "push_raises" -> fallback(Commit(Stage(g)))
          [] lib = "push_error_flag" ->
                 Failed(Commit(Stage(g)), lib, "warn_push")
          [] OTHER ->
                 [Commit(Stage(g)) EXCEPT !.log = @ \cup {"ok_commit_pushed"}]

\* commit_version_bump: skipped in a dry run, never raises
commit_version_bump ==
    /\ pc = "commit_version_bump"
    /\ steps' = steps \cup {"commit_version_bump"}
    /\ IF dry_run
       THEN /\ env' = {}
            /\ log' = {"dry_run"}
            /\ UNCHANGED <<plistIndex, commits>>
       ELSE \E lib \in LibraryOutcomes, sub \in SubprocessOutcomes :
              LET g == IF HAVE_GITPYTHON
                       THEN GitCommitViaLibrary(GitState, lib, sub)
                       ELSE GitCommitViaSubprocess(GitState, sub)
              IN  /\ plistIndex' = g.index
                  /\ commits' = g.commits
                  /\ log' = g.log
                  /\ env' = g.env
    /\ pc' = "create_tag"
    /\ UNCHANGED <<args, versions, notes, plist, formula, tags,
                   rootFiles, releaseHost, homebrew, err, atStart>>

TagExists(g, name) == \E t \in g.tags : t.name = name

\* a tag on the current HEAD
Tag(g, kind) ==
    [g EXCEPT !.tags = @ \cup {[name |-> tag_name, at |-> Len(g.commits),
                                kind |-> kind]}]

\* where the tag step can stop, for either backend
TagOutcomes == {"ok", "tag_fails", "push_fails"}
LibraryTagOutcomes == {"ok", "tag_raises", "push_raises", "push_error_flag"}

\* _git_tag_via_subprocess: git tag <name> (check=True), then push of the
\* tag; git tag exits non-zero when the tag exists
GitTagViaSubprocess(g, outcome) ==
    IF outcome = "tag_fails" \/ TagExists(g, tag_name)
    THEN Failed(g, "tag_fails", "warn_tag")
    ELSE IF outcome = "push_fails"
    THEN Failed(Tag(g, "lightweight"), "push_fails", "warn_tag_push")
    ELSE [Tag(g, "lightweight") EXCEPT !.log = @ \cup {"ok_tag_pushed"}]

\* the GitPython branch of create_tag: repo.create_tag(name, message=...)
\* makes an annotated tag; any exception falls back to
\* _git_tag_via_subprocess
GitTagViaLibrary(g, lib, sub) ==
    LET fallback(h, call) ==
            GitTagViaSubprocess(Failed(h, call, "warn_gitpython_tag"), sub)
    IN  CASE lib = "tag_raises" \/ TagExists(g, tag_name) ->
                 fallback(g, "tag_raises")
          [] lib = "push_raises" -> fallback(Tag(g, "annotated"), lib)
          [] lib = "push_error_flag" ->
                 Failed(Tag(g, "annotated"), lib, "warn_tag_push")
          [] OTHER ->
                 [Tag(g, "annotated") EXCEPT !.log = @ \cup {"ok_tag_pushed"}]

\* create_tag: skipped in a dry run, never raises
create_tag ==
    /\ pc = "create_tag"
    /\ steps' = steps \cup {"create_tag"}
    /\ IF dry_run
       THEN /\ env' = {}
            /\ log' = {"dry_run"}
            /\ UNCHANGED tags
       ELSE \E lib \in LibraryTagOutcomes, sub \in TagOutcomes :
              LET g == IF HAVE_GITPYTHON
                       THEN GitTagViaLibrary(GitState, lib, sub)
                       ELSE GitTagViaSubprocess(GitState, sub)
              IN  /\ tags' = g.tags
                  /\ log' = g.log
                  /\ env' = g.env
    /\ pc' = "generate_release_notes"
    /\ UNCHANGED <<args, versions, notes, plist, plistIndex, formula,
                   commits, rootFiles, releaseHost, homebrew, err, atStart>>

(* ------------------- release notes and release host -------------------- *)
\* the history is linear: commit i is reachable from commit j iff i <= j.
\* HEAD^ resolves when HEAD has a parent
HeadHasParent(history) == Len(history) > 1

\* iter_commits() and git log HEAD: every commit
FullHistory(history) == 1..Len(history)

\* the revision range "<tag>..HEAD^": the commits after the tagged one, up
\* to and including the parent of HEAD
SinceTag(history, tag) == { i \in 1..(Len(history) - 1) : i > tag.at }

\* for tag in repo.tags: last_tag = tag.name; break -- repo.tags is sorted
\* by name, so this is the tag with the least name (for the one-digit
\* components used here, the least version), the tag of this run included
LastTagViaLibrary(ts) ==
    { t \in ts : \A u \in ts : u = t \/ VersionLess(t.name.version, u.name.version) }

\* git describe --tags --abbrev=0 HEAD^: the nearest tag reachable from the
\* parent of HEAD; none when HEAD has no parent or no tag is reachable
LastTagViaSubprocess(history, ts) ==
    LET reachable == { t \in ts : t.at <= Len(history) - 1 }
    IN  { t \in reachable : \A u \in reachable : u.at <= t.at }

\* the commits listed by the GitPython branch
CommitsViaLibrary(history, ts) ==
    IF ts = {} THEN FullHistory(history)
    ELSE UNION { SinceTag(history, t) : t \in LastTagViaLibrary(ts) }

\* the commits listed by the raw-command branch
CommitsViaSubprocess(history, ts) ==
    IF LastTagViaSubprocess(history, ts) = {} THEN FullHistory(history)
    ELSE UNION { SinceTag(history, t) : t \in LastTagViaSubprocess(history, ts) }

\* generate_release_notes: runs in a dry run as well.  Only
\* subprocess.CalledProcessError is caught, so a failing GitPython call
\* leaves the method as an exception; the fallback notes have no
\* installation section and are not written to release_notes.md
generate_release_notes ==
    /\ pc = "generate_release_notes"
    /\ steps' = steps \cup {"generate_release_notes"}
    /\ \E history \in (IF HAVE_GITPYTHON /\ tags # {} /\ ~HeadHasParent(commits)
                       THEN {"log_fails"} ELSE {"ok", "log_fails"}) :
         /\ env' = {history}
         /\ CASE history = "ok" ->
                  /\ release_notes' = {"whats_changed", "installation"}
                  /\ commits_text' = IF HAVE_GITPYTHON
                                     THEN CommitsViaLibrary(commits, tags)
                                     ELSE CommitsViaSubprocess(commits, tags)
                  /\ notesFile' = "current"
                  /\ log' = {"ok_notes"}
                  /\ pc' = "create_github_release"
                  /\ UNCHANGED err
              [] history = "log_fails" /\ HAVE_GITPYTHON ->
                  /\ Raise("notes_error")
                  /\ log' = {}
                  /\ UNCHANGED <<release_notes, commits_text, notesFile>>
              [] OTHER ->
                  /\ release_notes' = {"notice"}
                  /\ log' = {"warn_notes"}
                  /\ pc' = "create_github_release"
                  /\ UNCHANGED <<commits_text, notesFile, err>>
    /\ UNCHANGED <<args, versions, plist, formula, primaryRepo, zip, releaseHost,
                   homebrew, atStart>>

\* gh release view <tag>: exit status 0 exactly when the host has a record
ReleaseExists(host, tag) == \E i \in 1..Len(host) : host[i] = tag

\* a probe that never finds the release
ProbeFindsNothing(host, tag) == FALSE

\* check_release.returncode == 0
Probe(host, tag) == ReleaseExists(host, tag)

\* gh release create <tag> --title --notes-file [assets]
CreateRelease(host, tag) == Append(host, tag)

\* how many release records the host holds for a tag
RecordsFor(host, tag) == Cardinality({i \in 1..Len(host) : host[i] = tag})

\* a release-host step that fails the run when it finds no client
create_github_release_requiring_client ==
    /\ pc = "create_github_release"
    /\ steps' = steps \cup {"create_github_release"}
    /\ env' = {}
    /\ log' = IF dry_run THEN {"dry_run"} ELSE {}
    /\ IF dry_run
       THEN pc' = "submit_to_homebrew" /\ UNCHANGED err
       ELSE Raise("no_release_client")
    /\ UNCHANGED <<args, versions, notes, plist, formula, primaryRepo,
                   rootFiles, releaseHost, homebrew, atStart>>

\* gh release create <tag> ... WinDock.zip and gh release upload --clobber:
\* the file at the project root, whatever wrote it, becomes the asset
Upload(as, tag, file) ==
    IF file = "absent" THEN as
    ELSE {a \in as : a.tag # tag} \cup {[tag |-> tag, zip |-> file]}

\* create_github_release: skipped in a dry run, never raises.  The bundle
\* exists here, build_app having checked it.  gh reads the notes file, so
\* create and edit fail without it.  The upload that follows is not checked.
create_github_release ==
    /\ pc = "create_github_release"
    /\ steps' = steps \cup {"create_github_release"}
    /\ IF dry_run
       THEN /\ env' = {}
            /\ log' = {"dry_run"}
            /\ UNCHANGED <<zip, releaseHost>>
       ELSE \E has_pygithub \in BOOLEAN,
               archive \in {"ok", "zip_fails"}, gh \in {"ok", "gh_fails"},
               upload \in {"ok", "upload_fails"} :
              LET clients == (IF has_gh_cli THEN {"gh_cli"} ELSE {}) \cup
                             (IF has_pygithub THEN {"pygithub"} ELSE {})
                  archived == IF archive = "ok" THEN "current" ELSE zip
                  warned == IF archive = "ok" THEN {} ELSE {"warn_zip"}
                  uploading == IF archived = "absent" THEN {}
                               ELSE {"uploading_zip"}
              IN  IF clients = {}
                  THEN /\ env' = clients
                       /\ log' = {"manual_guidance"}
                       /\ UNCHANGED <<zip, releaseHost>>
                  ELSE
                  /\ zip' = archived
                  /\ IF ~has_gh_cli
                     THEN /\ env' = clients \cup {archive}
                          /\ log' = warned
                          /\ UNCHANGED releaseHost
                     ELSE IF gh = "gh_fails" \/ notesFile = "absent"
                     THEN /\ env' = clients \cup {archive, "gh_fails"}
                          /\ log' = warned \cup {"warn_release"}
                          /\ UNCHANGED releaseHost
                     ELSE /\ env' = clients \cup {archive} \cup
                                    (IF archived = "absent" THEN {}
                                     ELSE {upload})
                          /\ IF Probe(releases, tag_name)
                             THEN /\ UNCHANGED releases
                                  /\ assets' = IF upload = "ok"
                                               THEN Upload(assets, tag_name,
                                                           archived)
                                               ELSE assets
                                  /\ log' = warned \cup uploading \cup
                                            {"release_edited", "ok_release"}
                             ELSE /\ releases' = CreateRelease(releases, tag_name)
                                  /\ assets' = Upload(assets, tag_name, archived)
                                  /\ log' = warned \cup uploading \cup
                                            {"release_created", "ok_release"}
    /\ pc' = "submit_to_homebrew"
    /\ UNCHANGED <<args, versions, notes, plist, formula, primaryRepo,
                   notesFile, homebrew, err, atStart>>

\* cleanup, then the success lines of run() and of main()
cleanup ==
    /\ pc = "cleanup"
    /\ steps' = steps \cup {"cleanup"}
    /\ notesFile' = "absent"
    /\ env' = {}
    /\ log' = {"success"}
    /\ pc' = "exited_ok"
    /\ UNCHANGED <<args, versions, notes, plist, formula, primaryRepo,
                   zip, releaseHost, homebrew, err, atStart>>

(* ------------------------------ formula sync --------------------------- *)
\* an operation of the try block failed: the except clause prints the
\* warning, then the finally clause runs
HbFail(attempted) ==
    /\ hbOps' = hbOps \o attempted
    /\ env' = {attempted[Len(attempted)] \o "_fails"}
    /\ log' = log \cup {"warn_homebrew"}
    /\ pc' = "hb_finally"

\* the operations went through
HbPass(attempted) ==
    /\ hbOps' = hbOps \o attempted
    /\ env' = {}

\* submit_to_homebrew, entry: the dry-run return, then the test
\* homebrew_tap_dir.exists() and (homebrew_tap_dir / ".git").exists()
submit_to_homebrew ==
    /\ pc = "submit_to_homebrew"
    /\ steps' = steps \cup {"submit_to_homebrew"}
    /\ env' = {}
    /\ log' = IF dry_run THEN {"dry_run"} ELSE {}
    /\ pc' = IF dry_run THEN "cleanup"
             ELSE IF tap.dir \in {"clone", "local"} THEN "hb_stale"
             ELSE "hb_absent"
    /\ UNCHANGED <<args, versions, notes, plist, formula, primaryRepo,
                   rootFiles, releaseHost, homebrew, err, atStart>>

\* Stale: chdir, reset --hard, clean -fd, checkout master (check=False),
\* pull origin master, chdir back; a repository made by git init has no
\* remote to pull from
hb_stale ==
    /\ pc = "hb_stale"
    /\ original_dir' = cwd
    /\ \E outcome \in {"ok", "reset", "clean", "pull"} :
         CASE outcome = "reset" ->
                  /\ HbFail(<<"reset">>)
                  /\ cwd' = "tap"
                  /\ UNCHANGED tap
           [] outcome = "clean" ->
                  /\ HbFail(<<"reset", "clean">>)
                  /\ cwd' = "tap"
                  /\ UNCHANGED tap
           [] outcome = "pull" \/ tap.dir = "local" ->
                  /\ HbFail(<<"reset", "clean", "checkout", "pull">>)
                  /\ cwd' = "tap"
                  /\ UNCHANGED tap
           [] OTHER ->
                  /\ HbPass(<<"reset", "clean", "checkout", "pull">>)
                  /\ cwd' = original_dir'
                  /\ pc' = "hb_ready"
                  /\ UNCHANGED <<tap, log>>
    /\ UNCHANGED <<args, versions, notes, plist, formula, primaryRepo,
                   rootFiles, releaseHost, steps, err, atStart>>

\* Absent: rmtree of a directory that is no repository, then git clone
hb_absent ==
    /\ pc = "hb_absent"
    /\ LET removal == IF tap.dir = "notrepo" THEN <<"rmtree">> ELSE <<>>
       IN  \E outcome \in {"ok", "rmtree", "clone"} :
             CASE outcome = "rmtree" /\ tap.dir = "notrepo" ->
                      /\ HbFail(<<"rmtree">>)
                      /\ UNCHANGED tap
               [] outcome = "clone" ->
                      /\ hbOps' = hbOps \o removal \o <<"clone">>
                      /\ env' = {"clone_fails"}
                      /\ tap' = [tap EXCEPT !.dir = "missing"]
                      /\ pc' = "hb_bootstrap"
                      /\ UNCHANGED log
               [] OTHER ->
                      /\ HbPass(removal \o <<"clone">>)
                      /\ tap' = [tap EXCEPT !.dir = "clone"]
                      /\ pc' = "hb_ready"
                      /\ UNCHANGED log
    /\ UNCHANGED <<args, versions, notes, plist, formula, primaryRepo,
                   rootFiles, releaseHost, cwd, original_dir, steps, err, atStart>>

\* the operations of the Bootstrapped state up to and including op
BootstrapOps(op) ==
    CASE op = "mkdir" -> <<"mkdir">>
      [] op = "init" -> <<"mkdir", "init">>
      [] op = "branch" -> <<"mkdir", "init", "branch">>
      [] op = "readme" -> <<"mkdir", "init", "branch", "readme">>
      [] op = "add_readme" -> <<"mkdir", "init", "branch", "readme", "add_readme">>
      [] OTHER -> <<"mkdir", "init", "branch", "readme", "add_readme",
                    "commit_readme">>

\* Bootstrapped (git clone raised CalledProcessError): mkdir, chdir, git
\* init, branch -M master, README, add, commit, chdir back
hb_bootstrap ==
    /\ pc = "hb_bootstrap"
    /\ \E outcome \in {"ok", "mkdir", "init", "branch", "readme", "add_readme",
                       "commit_readme"} :
         CASE outcome = "mkdir" ->
                  /\ HbFail(BootstrapOps(outcome))
                  /\ UNCHANGED <<tap, cwd, original_dir>>
           [] outcome = "init" ->
                  /\ HbFail(BootstrapOps(outcome))
                  /\ original_dir' = cwd
                  /\ cwd' = "tap"
                  /\ tap' = [tap EXCEPT !.dir = "notrepo"]
           [] outcome \in {"branch", "readme", "add_readme", "commit_readme"} ->
                  /\ HbFail(BootstrapOps(outcome))
                  /\ original_dir' = cwd
                  /\ cwd' = "tap"
                  /\ tap' = [tap EXCEPT !.dir = "local"]
           [] OTHER ->
                  /\ HbPass(BootstrapOps("commit_readme"))
                  /\ original_dir' = cwd
                  /\ cwd' = original_dir'
                  /\ tap' = [tap EXCEPT !.dir = "local"]
                  /\ pc' = "hb_ready"
                  /\ UNCHANGED log
    /\ UNCHANGED <<args, versions, notes, plist, formula, primaryRepo,
                   rootFiles, releaseHost, steps, err, atStart>>

\* outcomes of update_formula_checksum: curl exits non-zero, shasum fails
\* (check=True), or both succeed
ChecksumOutcomes == {"ok", "download_fails", "hash_fails"}

\* re.sub(r"sha256 :no_check", f'sha256 "{sha256}"', content)
SubstituteChecksum(f, digest) ==
    [f EXCEPT !.sha = IF @ = NoCheck THEN digest ELSE @]

\* a checksum step that blanks the field when it cannot compute the digest
update_formula_checksum_blanking(f, outcome) ==
    IF outcome = "ok"
    THEN [f EXCEPT !.sha = Digest(new_version)]
    ELSE [f EXCEPT !.sha = Digest(None)]

\* update_formula_checksum: never raises; the digest is that of the archive
\* downloaded from the release URL of the new version
update_formula_checksum(f, outcome) ==
    IF outcome = "ok" THEN SubstituteChecksum(f, Digest(new_version)) ELSE f

\* a Ready state that pushes before it commits
ReadyOpsPushFirst(op) ==
    CASE op = "formula_dir" -> <<"formula_dir">>
      [] op = "copy" -> <<"formula_dir", "copy">>
      [] op = "add" -> <<"formula_dir", "copy", "checksum", "add">>
      [] op = "commit" -> <<"formula_dir", "copy", "checksum", "add", "gh_check",
                            "push", "commit">>
      [] op = "gh_check" -> <<"formula_dir", "copy", "checksum", "add",
                              "gh_check">>
      [] OTHER -> <<"formula_dir", "copy", "checksum", "add", "gh_check",
                    "push">>

\* the operations of the Ready state up to and including op
ReadyOps(op) ==
    CASE op = "formula_dir" -> <<"formula_dir">>
      [] op = "copy" -> <<"formula_dir", "copy">>
      [] op = "add" -> <<"formula_dir", "copy", "checksum", "add">>
      [] op = "commit" -> <<"formula_dir", "copy", "checksum", "add", "commit">>
      [] op = "gh_check" -> <<"formula_dir", "copy", "checksum", "add",
                              "commit", "gh_check">>
      [] OTHER -> <<"formula_dir", "copy", "checksum", "add", "commit",
                    "gh_check", "push">>

\* Ready: chdir, Formula directory, copy of the local formula, checksum,
\* git add, git commit, gh --version (which fails where gh does not run),
\* git push -u origin master; the
\* return for a missing local formula passes through the finally clause
hb_ready ==
    /\ pc = "hb_ready"
    /\ original_dir' = cwd
    /\ cwd' = "tap"
    /\ \E outcome \in {"ok", "formula_dir", "copy", "add", "commit", "gh_check",
                       "push"},
          checksum \in ChecksumOutcomes :
         LET copied == update_formula_checksum(formula, checksum)
             checksumEnv == IF checksum = "ok" THEN {} ELSE {checksum}
             checksumLog == IF checksum = "ok" THEN {} ELSE {"warn_checksum"}
             fail(op) == /\ hbOps' = hbOps \o ReadyOps(op)
                         /\ env' = checksumEnv \cup {op \o "_fails"}
                         /\ log' = log \cup checksumLog \cup {"warn_homebrew"}
                         /\ pc' = "hb_finally"
                         /\ tap' = [tap EXCEPT !.formula = copied]
         IN  CASE outcome = "formula_dir" ->
                      /\ HbFail(ReadyOps("formula_dir"))
                      /\ UNCHANGED tap
               [] ~formula.exists ->
                      /\ HbPass(<<"formula_dir">>)
                      /\ log' = log \cup {"warn_local_formula_missing"}
                      /\ pc' = "hb_finally"
                      /\ UNCHANGED tap
               [] outcome = "copy" ->
                      /\ HbFail(ReadyOps("copy"))
                      /\ UNCHANGED tap
               [] outcome \in {"add", "commit", "gh_check"} -> fail(outcome)
               [] ~has_gh_cli -> fail("gh_check")
               [] outcome = "push" \/ tap.dir = "local" -> fail("push")
               [] OTHER ->
                      /\ hbOps' = hbOps \o ReadyOps("push")
                      /\ env' = checksumEnv
                      /\ log' = log \cup checksumLog \cup {"formula_pushed"}
                      /\ pc' = "hb_finally"
                      /\ tap' = [tap EXCEPT !.formula = copied]
    /\ UNCHANGED <<args, versions, notes, plist, formula, primaryRepo,
                   rootFiles, releaseHost, steps, err, atStart>>

\* a finally clause that restores nothing
SkipRestoreDir(dir, saved) == dir

\* os.chdir(original_dir)
RestoreDir(dir, saved) == saved

\* the finally clause: os.chdir(original_dir); original_dir is unbound when
\* the try block failed before its first assignment (UnboundLocalError)
hb_finally ==
    /\ pc = "hb_finally"
    /\ IF original_dir = "unbound"
       THEN /\ Raise("unbound_original_dir")
            /\ UNCHANGED cwd
       ELSE /\ cwd' = RestoreDir(cwd, original_dir)
            /\ pc' = "cleanup"
            /\ UNCHANGED err
    /\ UNCHANGED <<args, versions, notes, plist, formula, primaryRepo,
                   rootFiles, releaseHost, tap, original_dir, hbOps, env, log,
                   steps, atStart>>

(* --------------------------- the specification ------------------------- *)
Next ==
    \/ main
    \/ cleanup_stale_resources
    \/ get_current_version
    \/ calculate_new_version
    \/ update_version_in_plist
    \/ build_app
    \/ commit_version_bump
    \/ create_tag
    \/ generate_release_notes
    \/ create_github_release
    \/ submit_to_homebrew
    \/ hb_stale
    \/ hb_absent
    \/ hb_bootstrap
    \/ hb_ready
    \/ hb_finally
    \/ cleanup
    \/ handler

Spec == Init /\ [][Next]_vars

\* the script is one sequential process and every external call returns:
\* whenever a step is enabled, the process takes it
SpecFair == Spec /\ WF_vars(Next)

\* the calls of run(), in order
Pipeline ==
    <<"cleanup_stale_resources", "get_current_version", "calculate_new_version",
      "update_version_in_plist", "build_app", "commit_version_bump",
      "create_tag", "generate_release_notes", "create_github_release",
      "submit_to_homebrew", "cleanup">>

(* ------------- the version arithmetic over all small versions ---------- *)
\* every version major.minor.patch with components up to MaxComponent
VersionInputs ==
    { FormatVersion(a, b, c) : a \in 0..MaxComponent, b \in 0..MaxComponent,
                               c \in 0..MaxComponent }

\* a clean checkout whose Info.plist and formula name version v
CheckoutOf(v) ==
    [plist |-> [short |-> v, build |-> v], index |-> [short |-> v, build |-> v],
     head |-> [short |-> v, build |-> v], formula |-> FormulaFor(v),
     tags |-> {}, zip |-> "absent", notesFile |-> "absent", releases |-> <<>>,
     tap |-> TapIn("missing")]

InitVersion == \E v \in VersionInputs : InitWith(CheckoutOf(v))

\* the steps of run() that read, bump and write the version
NextVersion ==
    \/ main
    \/ cleanup_stale_resources
    \/ get_current_version
    \/ calculate_new_version
    \/ update_version_in_plist

SpecVersion == InitVersion /\ [][NextVersion]_vars

(* ------------- the formula substitution over formula documents -------- *)
\* version strings a formula field can hold: digits and dots, or suffixed
FieldInputs ==
    { FormatVersion(a, 0, c) : a \in 0..1, c \in 0..1 } \cup
    { SuffixedFormula.version }

\* formula documents: none, or any field values with or without a digest
FormulaInputs ==
    { NoFormula } \cup
    { [exists |-> TRUE, version |-> v, url |-> u, sha |-> d] :
      v \in FieldInputs, u \in FieldInputs, d \in {NoCheck, Digest(Released)} }

\* a ReleaseManager whose new_version is set, before any call of
\* update_homebrew_formula_version
InitFormula ==
    /\ pc = "formula_0"
    /\ dry_run = FALSE
    /\ version_type = "patch"
    /\ HAVE_GITPYTHON = FALSE
    /\ has_gh_cli = FALSE
    /\ current_version = Released
    /\ new_version \in { FormatVersion(a, 0, c) : a \in 0..1, c \in 0..1 }
    /\ tag_name = TagOf(new_version)
    /\ release_notes = {}
    /\ commits_text = {}
    /\ plist = WritePlist(Committed, new_version)
    /\ plistIndex = Committed
    /\ commits = <<[plist |-> Committed, bump |-> FALSE]>>
    /\ formula \in FormulaInputs
    /\ tags = {}
    /\ zip = "absent"
    /\ notesFile = "absent"
    /\ releases = <<>>
    /\ assets = {}
    /\ tap = TapIn("missing")
    /\ cwd = "start"
    /\ original_dir = "unbound"
    /\ hbOps = <<>>
    /\ env = {}
    /\ log = {}
    /\ steps = {}
    /\ err = "none"
    /\ atStart = Snapshot(plist, formula, commits, tags, plistIndex, zip,
                          notesFile)

\* one call of update_homebrew_formula_version, the first or the second
call_update_homebrew_formula_version ==
    /\ pc \in {"formula_0", "formula_1"}
    /\ \E rewrite \in {"ok", "rewrite_fails"} :
          /\ update_homebrew_formula_version(rewrite)
          /\ env' = {"formula_" \o rewrite}
          /\ steps' = steps \cup {pc \o "_" \o rewrite}
    /\ pc' = IF pc = "formula_0" THEN "formula_1" ELSE "formula_2"
    /\ UNCHANGED <<args, versions, notes, plist, primaryRepo,
                   rootFiles, releaseHost, homebrew, err, atStart>>

SpecFormula == InitFormula /\ [][call_update_homebrew_formula_version]_vars

(* ------------------------------- claims -------------------------------- *)
\* the except clause of main() is running or has run
Aborted == pc \in {"handler", "exited_handled", "exited_traceback"}

\* the steps of run() after the build
AfterBuildSteps == {"commit_version_bump", "create_tag", "generate_release_notes",
                    "create_github_release", "submit_to_homebrew"}

\* the positions inside submit_to_homebrew's try/finally
InsideSync == {"hb_stale", "hb_absent", "hb_bootstrap", "hb_ready", "hb_finally"}

\* C1: a dry run ends with the metadata file, the formula document and the
\* primary repository (commits, tags) exactly as they were at its start,
\* whatever the external steps did, the failure handler included.
C1_DryRunChangesNothing ==
    (dry_run /\ pc \in Exited) =>
        /\ plist = atStart.plist
        /\ formula = atStart.formula
        /\ commits = atStart.commits
        /\ tags = atStart.tags

\* C2: in a non-dry run a build that exits non-zero, or exits zero without
\* the application bundle, aborts the run with a build error, and none of
\* the commit, tag, release-notes, release-host and formula-sync steps runs.
C2_BuildFailureAborts ==
    /\ (~dry_run /\ env \cap {"build_nonzero", "build_no_app"} # {}) =>
           (pc = "handler" /\ err = "build_error")
    /\ (~dry_run /\ err = "build_error") =>
           (Aborted /\ steps \cap AfterBuildSteps = {})

\* C2 witness: the build exited zero without the bundle and the run is in
\* the failure handler
C2_Witness ==
    ~dry_run /\ env = {"build_no_app"} /\ pc = "handler" /\ err = "build_error"

\* this non-dry run went through the commit step without making the
\* version-bump commit (git add or git commit failed, or nothing was
\* staged), or through the tag step without creating the tag
GitStepFailed ==
    /\ ~dry_run
    /\ \/ "commit_version_bump" \in steps /\ commits = atStart.commits
       \/ "create_tag" \in steps /\ tags = atStart.tags

\* C3: in a non-dry run a failed version-bump commit or a failed tag
\* creation never aborts the run: the top-level failure handler is never
\* entered afterwards, under either git backend.
C3_GitFailureNeverAborts == GitStepFailed => ~Aborted

\* C4: whenever a fatal error aborted the run and the restore of the
\* handler succeeded, the metadata file equals its last-committed content.
C4_RestoreGivesCommitted ==
    pc = "exited_handled" => plist = HeadOf(commits).plist

\* C5: a failure of any operation inside the formula-sync step is caught
\* inside the step: the top-level failure handler is never entered once the
\* step has begun, and the run goes on to cleanup.
C5_SyncFailureIsContained == "submit_to_homebrew" \in steps => ~Aborted

\* C6: whenever the process is not inside the formula-sync step, its
\* working directory is the one it had when the step was entered (the one
\* the process started in), on every exit path of the step.
C6_WorkingDirectoryRestored == pc \notin InsideSync => cwd = "start"

\* C6 witness: the step failed at git reset in the Stale state, with the
\* process inside the tap checkout, and has exited
C6_Witness ==
    /\ pc = "cleanup"
    /\ hbOps = <<"reset">>
    /\ "warn_homebrew" \in log
    /\ original_dir = "start"

\* C7: the release host never holds two release records for one tag, and
\* a release-host step that found the release edited it instead of
\* creating a second record.
C7_OneReleasePerTag ==
    /\ \A i, j \in 1..Len(releases) : releases[i] = releases[j] => i = j
    /\ (pc = "submit_to_homebrew" /\ "release_edited" \in log) =>
           RecordsFor(releases, tag_name) = 1

\* C7 witness: the release for this tag existed, the step took the edit
\* path and the host still holds one record for the tag
C7_Witness ==
    /\ pc = "submit_to_homebrew"
    /\ "release_edited" \in log
    /\ RecordsFor(releases, tag_name) = 1

\* C8: release-notes generation never raises: when retrieving the history
\* fails, the step returns normally with a one-line notice plus the
\* installation section, and the run goes on to the release-host step.
C8_NotesNeverRaise ==
    "log_fails" \in env =>
        /\ pc = "create_github_release"
        /\ release_notes = {"notice", "installation"}

\* C9: for every starting version major.minor.patch and every bump kind the
\* new version is (major+1,0,0), (major,minor+1,0) or (major,minor,patch+1),
\* is strictly greater than the starting version, and the tag is "v"
\* followed by the new version.
C9_BumpIsExactAndGreater ==
    pc = "update_version_in_plist" =>
        LET major == current_version[1]
            minor == current_version[2]
            patch == current_version[3]
        IN  /\ version_type = "major" => new_version = <<major + 1, 0, 0>>
            /\ version_type = "minor" => new_version = <<major, minor + 1, 0>>
            /\ version_type = "patch" => new_version = <<major, minor, patch + 1>>
            /\ VersionLess(current_version, new_version)
            /\ tag_name.prefix = "v"
            /\ tag_name.version = new_version

\* C9 witness: a minor bump of a version with a non-zero patch component
C9_Witness ==
    /\ pc = "update_version_in_plist"
    /\ version_type = "minor"
    /\ current_version = <<MaxComponent, MaxComponent, 1>>
    /\ new_version = <<MaxComponent, MaxComponent + 1, 0>>

\* C10: after a non-dry write of the new version to the metadata file, a
\* read of the metadata file returns exactly that version.
C10_WriteThenRead ==
    (pc = "build_app" /\ ~dry_run) => ReadVersion(plist) = new_version

\* C10 witness: the version was written over a different one
C10_Witness ==
    /\ pc = "build_app"
    /\ ~dry_run
    /\ atStart.plist.short # new_version
    /\ plist.short = new_version

\* C11: after a non-dry version write in which the metadata file and the
\* formula document were both written without error, both version fields of
\* the metadata file equal the new version, and an existing formula
\* document names the new version in its version field and in its URL.
C11_WriteSetsAllFour ==
    (pc = "build_app" /\ ~dry_run /\ env = {"ok", "formula_ok"}) =>
        /\ plist.short = new_version
        /\ plist.build = new_version
        /\ formula.exists =>
               (formula.version = new_version /\ formula.url = new_version)

\* both calls of update_homebrew_formula_version wrote the formula document
BothRewritesRan == {"formula_0_ok", "formula_1_ok"} \subseteq steps

\* C12: for every formula document and every new version, the second
\* application of the version/URL substitution leaves the document as the
\* first application made it.
C12_SubstitutionIdempotent ==
    [][(pc = "formula_1" /\ pc' = "formula_2" /\ BothRewritesRan') =>
           formula' = formula]_vars

\* C12 witness: a document naming another version was substituted twice
C12_Witness ==
    /\ pc = "formula_2"
    /\ BothRewritesRan
    /\ atStart.formula.exists
    /\ atStart.formula.version # new_version
    /\ formula.version = new_version
    /\ formula.url = new_version

\* C13: the commit step and the tag step leave the same repository state
\* under both git backends: whenever the step of this run went through
\* without a failed call, the commits and the tags afterwards are those the
\* raw-command backend makes of the same repository with the same outcome.
C13_BackendsAgree ==
    [][/\ (pc = "commit_version_bump" /\ ~dry_run
              /\ "ok_commit_pushed" \in log' /\ env' = {}) =>
           commits' = GitCommitViaSubprocess(GitState, "ok").commits
       /\ (pc = "create_tag" /\ ~dry_run
              /\ "ok_tag_pushed" \in log' /\ env' = {}) =>
           tags' = GitTagViaSubprocess(GitState, "ok").tags]_vars

C15_NoClientSkipsRelease ==
    [][(pc = "create_github_release" /\ ~dry_run /\ env' = {}) =>
           /\ releases' = releases
           /\ zip' = zip
           /\ log' = {"manual_guidance"}
           /\ err' = "none"
           /\ pc' = "submit_to_homebrew"]_vars

\* C15 witness: the step found no client and the run is at the formula sync
C15_Witness ==
    /\ pc = "submit_to_homebrew"
    /\ "create_github_release" \in steps
    /\ ~dry_run
    /\ env = {}
    /\ log = {"manual_guidance"}
    /\ err = "none"

\* C16: when a fatal error aborted the run, the error was printed; if the
\* restore of the metadata file succeeded the process exits with status 0
\* (nothing is re-raised), and if the restore call failed its exception
\* leaves main() unhandled.
C16_HandlerExit ==
    (pc \in Exited /\ err # "none") =>
        /\ "error_printed" \in log
        /\ env = {"ok"} => (pc = "exited_handled" /\ ExitStatus(pc) = 0)
        /\ env = {"restore_fails"} =>
               (pc = "exited_traceback" /\ ExitStatus(pc) # 0)

\* C16 witness: a build error aborted the run, the restore succeeded and
\* the process has exited
C16_Witness ==
    /\ pc = "exited_handled"
    /\ err = "build_error"
    /\ env = {"ok"}
    /\ "error_printed" \in log

\* the operations the formula sync attempted
Attempted == { hbOps[i] : i \in 1..Len(hbOps) }

\* the checksum step of this formula sync ran, and its download and its
\* hashing succeeded
ChecksumComputed ==
    /\ pc \in {"hb_finally", "cleanup", "exited_ok"}
    /\ ~dry_run
    /\ "checksum" \in Attempted
    /\ "warn_checksum" \notin log

\* C17: when the download and the hashing succeeded during formula sync,
\* the checksum field of the tap's formula document equals the digest of
\* the archive of the new version, whatever the field held before.
C17_ChecksumFieldIsDigest ==
    (pc = "hb_finally" /\ ChecksumComputed) =>
        tap.formula.sha = Digest(new_version)

\* C18: when the download or the hashing failed during formula sync, the
\* checksum field of the tap's formula document is the one of the formula
\* document that was copied in, a warning was printed, and the sync went on
\* with git add and git commit; when nothing else failed, it pushed.
C18_ChecksumFailureIsNotFatal ==
    (pc = "hb_finally" /\ ~dry_run /\ "warn_checksum" \in log) =>
        /\ tap.formula.sha = formula.sha
        /\ "add" \in Attempted
        /\ env \in {{"download_fails"}, {"hash_fails"}} =>
               ("push" \in Attempted /\ "formula_pushed" \in log)

\* C18 witness: the download failed, the sentinel stayed and the formula
\* was pushed
C18_Witness ==
    /\ pc = "hb_finally"
    /\ env = {"download_fails"}
    /\ "warn_checksum" \in log
    /\ "formula_pushed" \in log
    /\ tap.formula.sha = NoCheck

\* the release tags of earlier releases: every tag but the one of this run
PreviousTags == { t \in tags : t.name # tag_name }

\* the tagged commit of the latest earlier release
LatestPrevious == { t \in PreviousTags : \A u \in PreviousTags : u.at <= t.at }

\* the notes of this run were generated from the history
NotesGenerated ==
    /\ pc = "create_github_release"
    /\ "whats_changed" \in release_notes
    /\ TagOf(new_version) \notin { t.name : t \in atStart.tags }

\* C19: under either git backend, with a previous release tag the
\* what-changed section lists exactly the commits after the previously
\* tagged one and before HEAD, and with no previous release tag it lists
\* the full history.
C19_NotesListCommitsSincePreviousTag ==
    NotesGenerated =>
        /\ PreviousTags = {} => commits_text = 1..Len(commits)
        /\ (PreviousTags # {} /\ Len(commits) > 1) =>
               \A t \in LatestPrevious :
                   commits_text = { i \in 1..(Len(commits) - 1) : i > t.at }

\* sequence a is a prefix of sequence b
IsPrefix(a, b) ==
    Len(a) <= Len(b) /\ \A i \in 1..Len(a) : a[i] = b[i]

\* the ways into the Ready state: Absent with a clone that succeeds, Absent
\* with a failed clone followed by Bootstrapped, and Stale
WaysToReady ==
    LET bootstrapped == <<"mkdir", "init", "branch", "readme", "add_readme",
                          "commit_readme">>
    IN  { <<"clone">>, <<"rmtree", "clone">>,
          <<"clone">> \o bootstrapped, <<"rmtree", "clone">> \o bootstrapped,
          <<"reset", "clean", "checkout", "pull">> }

\* the operations of Ready, in order
InReady ==
    <<"formula_dir", "copy", "checksum", "add", "commit", "gh_check", "push">>

\* C20: the operations the formula sync attempts are always a prefix of
\* one way into Ready followed by the operations of Ready in order (copy,
\* checksum, add, commit, push); the sync is at Ready only after one whole
\* way into it; Stale is taken exactly for a directory that is a
\* repository and Absent otherwise; push is attempted only after commit.
C20_TapStateMachine ==
    /\ \E w \in WaysToReady : IsPrefix(hbOps, w \o InReady)
    /\ pc = "hb_ready" => hbOps \in WaysToReady
    /\ pc = "hb_stale" => tap.dir \in {"clone", "local"}
    /\ pc = "hb_absent" => tap.dir \in {"missing", "notrepo"}
    /\ pc = "hb_bootstrap" => (hbOps # <<>> /\ hbOps[Len(hbOps)] = "clone")
    /\ \A i \in 1..Len(hbOps) :
          hbOps[i] = "push" => \E j \in 1..(i - 1) : hbOps[j] = "commit"

\* C20 witness: the clone failed, the tap was bootstrapped, and Ready went
\* through copy, checksum and commit up to the push
C20_Witness ==
    /\ pc = "hb_finally"
    /\ hbOps = <<"clone", "mkdir", "init", "branch", "readme", "add_readme",
                 "commit_readme", "formula_dir", "copy", "checksum", "add",
                 "commit", "gh_check", "push">>

\* the version read from the metadata file has a non-numeric component
ReadNonNumeric ==
    /\ "calculate_new_version" \in steps
    /\ \E i \in 1..Len(current_version) : current_version[i] = NonNumeric

\* C21: when the version read from the metadata file has a non-numeric
\* component, the run fails at version calculation: no later step runs and
\* neither the metadata file nor the formula document is written.
C21_NonNumericVersionIsFatal ==
    ReadNonNumeric =>
        /\ err = "version_error"
        /\ steps \cap ({"update_version_in_plist", "build_app", "cleanup"}
                         \cup AfterBuildSteps) = {}
        /\ plist = atStart.plist
        /\ formula = atStart.formula

\* C22: no step of the pipeline is entered a second time, and every run
\* ends: it reaches the success report, or the top-level failure handler
\* and through it the exit of the process.
C22_EveryRunTerminates ==
    /\ [](pc \notin steps)
    /\ <>(pc \in Exited)
    /\ [](pc \in Exited => (pc = "exited_ok" \/ "handler" \in steps))

\* C22 witness: a non-dry run that executed every step of the pipeline
\* and reported success
C22_Witness ==
    /\ pc = "exited_ok"
    /\ ~dry_run
    /\ \A i \in 1..Len(Pipeline) : Pipeline[i] \in steps
    /\ "handler" \notin steps

\* C23: after a non-dry run that was aborted after the version write and
\* whose restore succeeded, the formula document in the working tree is as
\* it was before the run.
C23_RollbackRestoresFormula ==
    (pc = "exited_handled" /\ ~dry_run /\ "update_version_in_plist" \in steps) =>
        formula = atStart.formula

\* C24: every tag a non-dry run creates points to the version-bump commit
\* of this run, a commit made by this run in which the metadata file
\* carries the new version.
C24_TagPointsToBumpCommit ==
    \A t \in tags \ atStart.tags :
        /\ t.at > Len(atStart.commits)
        /\ commits[t.at].bump
        /\ commits[t.at].plist.short = new_version

\* C25: in one run, whatever the library backend did before it handed over
\* to the raw commands, at most one version-bump commit is added to the
\* history and at most one tag is created, and no two tags share a name.
C25_AtMostOneCommitAndTag ==
    /\ Len(commits) <= Len(atStart.commits) + 1
    /\ Cardinality(tags \ atStart.tags) <= 1
    /\ \A t, u \in tags : t.name = u.name => t = u

\* C25 witness: the library committed, its push raised, the raw commands
\* ran after it and found nothing to commit: one new commit
C25_Witness ==
    /\ pc = "create_tag"
    /\ HAVE_GITPYTHON
    /\ {"push_raises", "commit_fails"} \subseteq env
    /\ Len(commits) = Len(atStart.commits) + 1

\* C26: whenever the release-host step of a non-dry run invoked gh release
\* create or edit, release_notes.md existed and held the notes of this run.
C26_NotesFileIsThisRuns ==
    (pc = "submit_to_homebrew" /\ ~dry_run /\ "gh_cli" \in env) =>
        notesFile = "current"

\* the release step of this run attached WinDock.zip to the release of its tag
AttachedZip ==
    /\ pc = "submit_to_homebrew"
    /\ {"ok_release", "uploading_zip"} \subseteq log
    /\ "release_created" \in log \/ "upload_fails" \notin env

\* C27: whenever this run attached a zip to the release of its tag, the asset
\* is the archive made from this run's bundle, even when removing the stale
\* archive or creating the new one failed.
C27_AttachedArchiveIsThisRuns ==
    AttachedZip => [tag |-> tag_name, zip |-> "current"] \in assets

\* C28: the formula is pushed to the tap only in runs whose release-host step
\* created or updated the release record of the tag; so whenever the push has
\* happened the release host holds a record for this run's tag.
C28_FormulaPushedOnlyAfterRelease ==
    "formula_pushed" \in log => RecordsFor(releases, tag_name) >= 1

\* C29: whenever the release-host step of a non-dry run returns without
\* having created or updated the release, it has printed the manual-completion
\* guidance or the release-failure warning, whichever clients are available.
C29_NoSilentSkip ==
    (pc = "submit_to_homebrew" /\ ~dry_run /\ "ok_release" \notin log) =>
        ("manual_guidance" \in log \/ "warn_release" \in log)

\* C30: a dry run leaves the generated files at the project root as they
\* were: an archive retained from an earlier release is still there when the
\* run has ended, and no release-notes file exists that did not exist before.
C30_DryRunKeepsRootFiles ==
    (dry_run /\ pc \in Exited) =>
        /\ atStart.zip # "absent" => zip # "absent"
        /\ notesFile # "absent" => atStart.notesFile # "absent"

====
